---------------------------- MODULE Spec2Model ----------------------------
(***************************************************************************)
(* A model of JParse, the recursive-descent parser of extended JSON        *)
(* declared in src/mongo/db/json.h.  The input buffer is a sequence of     *)
(* bytes, the cursor an offset into it, the BSONObjBuilder the log of the  *)
(* appends it received.  The grammar productions are the actions; the      *)
(* scanner, the lexical decoders and the numeric classifier are operators  *)
(* over the buffer and an explicit cursor.                                 *)
(***************************************************************************)
EXTENDS Integers, Sequences, FiniteSets, TLC

VARIABLES
    _buf,        \* JParse::_buf: the bytes of the input buffer
    _input,      \* JParse::_input: the cursor, as the offset _input - _buf
    _input_end,  \* JParse::_input_end: the offset of the terminating null
    stack,       \* the call stack of grammar productions (innermost last)
    builder,     \* the appends the BSONObjBuilder(s) received, in order
    status,      \* "new" | "running" | "unwinding" | "ok" | "failed"
    err,         \* the Status returned: kind and offset of the parse error
    isArr,       \* what a call of isArray() returned: "none" | "yes" | "no"
    mres,        \* what a call of match() returned: "none" | "true" | "false"
    inp,         \* the text handed to the constructor, as tokens (and the call of match under test)
    run,         \* 1: the text as written, 2: the text with whitespace inserted
    ref          \* the outcome of run 1, kept to compare run 2 with

vars == <<_buf, _input, _input_end, stack, builder, status, err, isArr, mres, inp, run, ref>>

(***************************************************************************)
(* Bytes.  A character is its ASCII code.                                  *)
(***************************************************************************)
AsciiPrintable ==
    << " ", "!", "\"", "#", "$", "%", "&", "'", "(", ")", "*", "+", ",", "-", ".", "/",
       "0", "1", "2", "3", "4", "5", "6", "7", "8", "9", ":", ";", "<", "=", ">", "?",
       "@", "A", "B", "C", "D", "E", "F", "G", "H", "I", "J", "K", "L", "M", "N", "O",
       "P", "Q", "R", "S", "T", "U", "V", "W", "X", "Y", "Z", "[", "\\", "]", "^", "_",
       "(grave)", "a", "b", "c", "d", "e", "f", "g", "h", "i", "j", "k", "l", "m", "n", "o",
       "p", "q", "r", "s", "t", "u", "v", "w", "x", "y", "z", "{", "|", "}", "~" >>

Ord(c) ==
    IF c = "\t" THEN 9
    ELSE IF c = "\n" THEN 10
    ELSE IF c = "\r" THEN 13
    ELSE 31 + (CHOOSE i \in 1..Len(AsciiPrintable) : AsciiPrintable[i] = c)

\* The bytes of a text written as a tuple of one-character strings.
B(s) == [i \in 1..Len(s) |-> Ord(s[i])]

Range(s) == {s[i] : i \in 1..Len(s)}

RECURSIVE Flatten(_)
Flatten(ss) == IF ss = <<>> THEN <<>> ELSE Head(ss) \o Flatten(Tail(ss))

isspace(c) == c \in {32, 9, 10, 11, 12, 13}
isdigit(c) == c \in 48..57
isalpha(c) == c \in (65..90) \cup (97..122)
isxdigit(c) == c \in (48..57) \cup (65..70) \cup (97..102)

\* A const char* argument: NULL, or a null-terminated string.
NULL == [null |-> TRUE, s |-> <<>>]
CStr(s) == [null |-> FALSE, s |-> s]

(***************************************************************************)
(* Scanner                                                                 *)
(***************************************************************************)
RECURSIVE skipSpace(_)
skipSpace(p) ==
    IF p < _input_end /\ isspace(_buf[p + 1]) THEN skipSpace(p + 1) ELSE p

\* A scanner that forgets to skip the whitespace before a token.
readTokenImpl_NoSkip(p, token, advance) ==
    LET n == Len(token)
        hit == p + n <= _input_end /\ \A i \in 1..n : _buf[p + i] = token[i]
    IN  [matched |-> hit, input |-> IF hit /\ advance THEN p + n ELSE p]

\* A scanner that commits the skipped whitespace whatever the outcome.
readTokenImpl_Commit(p, token, advance) ==
    LET check == skipSpace(p)
        n == Len(token)
        hit == check + n <= _input_end /\ \A i \in 1..n : _buf[check + i] = token[i]
    IN  [matched |-> hit, input |-> IF hit /\ advance THEN check + n ELSE check]

\* readTokenImpl(token, advance) with the cursor at offset p: whether token
\* matches the next non-whitespace sequence, and the cursor afterwards.
readTokenImpl(p, token, advance) ==
    LET check == skipSpace(p)
        n == Len(token)
        hit == check + n <= _input_end /\ \A i \in 1..n : _buf[check + i] = token[i]
    IN  [matched |-> hit, input |-> IF hit /\ advance THEN check + n ELSE p]

\* A peek that consumes the token it finds.
peekToken_Advancing(p, token) == readTokenImpl(p, token, TRUE)

\* peekToken(token): readTokenImpl with advance = false.
peekToken(p, token) == readTokenImpl(p, token, FALSE)
\* readToken(token): readTokenImpl with advance = true.
readToken(p, token) == readTokenImpl(p, token, TRUE)

\* match as the specification words it: a null set matches nothing.
match_NullFalse(matchChar, matchSet) ==
    /\ ~matchSet.null
    /\ \E i \in 1..Len(matchSet.s) : matchSet.s[i] = matchChar

\* match(matchChar, matchSet): true if matchChar is in matchSet; true if
\* matchSet is NULL and false if it is an empty string.
match(matchChar, matchSet) ==
    IF matchSet.null THEN TRUE
    ELSE \E i \in 1..Len(matchSet.s) : matchSet.s[i] = matchChar

\* A check of the first character alone.
isHexString_First(s) == s # <<>> => isxdigit(s[1])

\* isHexString(s): true if every character of s is a hex digit.
isHexString(s) == \A i \in 1..Len(s) : isxdigit(s[i])

hexValue(c) == IF isdigit(c) THEN c - 48 ELSE IF c >= 97 THEN c - 87 ELSE c - 55

\* The byte two hex digits stand for.
fromHex(hi, lo) == 16 * hexValue(hi) + hexValue(lo)

(***************************************************************************)
(* Lexical decoders                                                        *)
(***************************************************************************)
\* An encoder that joins nothing but drops the lead byte's high bits.
encodeUTF8_TwoByteOnly(first, second) ==
    IF first = 0 /\ second < 128 THEN <<second>>
    ELSE << 192 + ((first * 4 + second \div 64) % 32), 128 + (second % 64) >>

\* encodeUTF8(first, second): the UTF-8 encoding, one to three bytes, of the
\* two-byte code point whose high byte is first and low byte is second.
encodeUTF8(first, second) ==
    IF first = 0 /\ second < 128 THEN <<second>>
    ELSE IF first < 8
    THEN << 192 + (first * 4 + second \div 64), 128 + (second % 64) >>
    ELSE << 224 + (first \div 16),
            128 + ((first * 4 + second \div 64) % 64),
            128 + (second % 64) >>

Fail(p, kind) == [ok |-> FALSE, input |-> p, kind |-> kind, result |-> <<>>]
Okay(p, result) == [ok |-> TRUE, input |-> p, kind |-> "", result |-> result]

\* The single-character escapes of CHAR: the byte each stands for.
escapeOf(e) ==
    CASE e = 98 -> 8      \* \b
      [] e = 102 -> 12    \* \f
      [] e = 110 -> 10    \* \n
      [] e = 114 -> 13    \* \r
      [] e = 116 -> 9     \* \t
      [] e = 118 -> 11    \* \v
      [] OTHER -> e       \* \" \' \\ \/ and any other character

\* Whether the character at offset i ends a run of characters copied
\* verbatim: a terminal, one not allowed, a control character, an escape.
special(i, terminalSet, allowedSet) ==
    LET c == _buf[i + 1] IN
    \/ match(c, terminalSet)
    \/ ~match(c, allowedSet)
    \/ c <= 31
    \/ (c = 92 /\ i + 1 < _input_end)

\* The first offset from q on that holds a special character, or the end.
plainEnd(q, terminalSet, allowedSet) ==
    CHOOSE r \in q.._input_end :
        /\ r = _input_end \/ special(r, terminalSet, allowedSet)
        /\ \A i \in q..(r - 1) : ~special(i, terminalSet, allowedSet)

RECURSIVE charsLoop(_, _, _, _, _)
charsLoop(p, from, sofar, terminalSet, allowedSet) ==
    LET q == plainEnd(from, terminalSet, allowedSet)
        acc == sofar \o SubSeq(_buf, from + 1, q)
    IN
    IF q >= _input_end THEN Fail(p, "malformed-string")
    ELSE LET c == _buf[q + 1] IN
      IF match(c, terminalSet) THEN Okay(q, acc)
      ELSE IF ~match(c, allowedSet) THEN Okay(q, acc)
      ELSE IF c <= 31 THEN Fail(p, "malformed-string")
      ELSE LET e == _buf[q + 2] IN
           IF e = 117
           THEN IF q + 6 <= _input_end
                   /\ isHexString(SubSeq(_buf, q + 3, q + 6))
                THEN charsLoop(p, q + 6,
                               acc \o encodeUTF8(fromHex(_buf[q + 3], _buf[q + 4]),
                                                 fromHex(_buf[q + 5], _buf[q + 6])),
                               terminalSet, allowedSet)
                ELSE Fail(p, "malformed-string")
           ELSE IF e = 120 \/ isdigit(e) THEN Fail(p, "malformed-string")
           ELSE charsLoop(p, q + 2, Append(acc, escapeOf(e)), terminalSet, allowedSet)

\* chars(result, terminalSet, allowedSet) with the cursor at p: decodes up to
\* the first character of terminalSet, or the first one outside allowedSet.
chars(p, terminalSet, allowedSet) ==
    IF p >= _input_end THEN Fail(p, "malformed-string")
    ELSE charsLoop(p, p, <<>>, terminalSet, allowedSet)

DOUBLEQUOTE == <<34>>
SINGLEQUOTE == <<39>>

\* After the result r, the mandatory token: the cursor moves past it, or the
\* production fails where it stands.
Expect(r, token, kind) ==
    IF ~r.ok THEN r
    ELSE IF readToken(r.input, token).matched
    THEN Okay(readToken(r.input, token).input, r.result)
    ELSE Fail(r.input, kind)

At(p) == Okay(p, <<>>)

quoteAt(p) == IF peekToken(p, DOUBLEQUOTE).matched THEN DOUBLEQUOTE ELSE SINGLEQUOTE
isQuoteAt(p) == peekToken(p, DOUBLEQUOTE).matched \/ peekToken(p, SINGLEQUOTE).matched

\* quotedString(result): " CHARS " or ' CHARS '.
quotedString(p) ==
    IF ~isQuoteAt(p) THEN Fail(p, "malformed-token")
    ELSE Expect(chars(readToken(p, quoteAt(p)).input, CStr(quoteAt(p)), NULL),
                quoteAt(p), "malformed-string")

quotedStringAfter(r) == IF r.ok THEN quotedString(r.input) ELSE r

\* [a-zA-Z$_] and [a-zA-Z0-9$_], the characters of an unquoted FIELD.
isFieldStart(c) == isalpha(c) \/ c = 36 \/ c = 95
FIELDCHARS ==
    [i \in 1..64 |->
        IF i <= 26 THEN 64 + i              \* A-Z
        ELSE IF i <= 52 THEN 96 + (i - 26)  \* a-z
        ELSE IF i <= 62 THEN 47 + (i - 52)  \* 0-9
        ELSE IF i = 63 THEN 36 ELSE 95]     \* $ _

unquotedField(q) ==
    IF q >= _input_end THEN Fail(q, "malformed-token")
    ELSE IF ~isFieldStart(_buf[q + 1]) THEN Fail(q, "malformed-token")
    ELSE chars(q, CStr(<<>>), CStr(FIELDCHARS))

\* field(result): a quoted string, or an unquoted name read verbatim.
field(p) == IF isQuoteAt(p) THEN quotedString(p) ELSE unquotedField(skipSpace(p))

sameField(p, f, expected) ==
    IF f.ok /\ f.result = expected
    THEN [matched |-> TRUE, input |-> f.input]
    ELSE [matched |-> FALSE, input |-> p]

\* readField(field): whether the next field name is the expected one.
readField(p, expected) == sameField(p, field(p), expected)

(***************************************************************************)
(* Numeric literal classifier                                              *)
(***************************************************************************)
INT32_MAX == (1073741823 + 1073741823) + 1
INT32_MIN == (-INT32_MAX) - 1

RECURSIVE skipSpaceIn(_, _)
skipSpaceIn(s, p) ==
    IF p < Len(s) /\ isspace(s[p + 1]) THEN skipSpaceIn(s, p + 1) ELSE p

RECURSIVE digitsEnd(_, _)
digitsEnd(s, q) ==
    IF q < Len(s) /\ isdigit(s[q + 1]) THEN digitsEnd(s, q + 1) ELSE q

\* The digits s[q+1..e] accumulated as a negative number, so that the whole
\* 32-bit range is reached; range is FALSE once the value leaves it.
RECURSIVE accumulate(_, _, _, _)
accumulate(s, q, e, acc) ==
    IF q >= e THEN [range |-> TRUE, neg |-> acc]
    ELSE IF acc < (INT32_MIN + (s[q + 1] - 48) + 9) \div 10
    THEN [range |-> FALSE, neg |-> 0]
    ELSE accumulate(s, q + 1, e, acc * 10 - (s[q + 1] - 48))

isMinus(s, q) == q < Len(s) /\ s[q + 1] = 45
signEnd(s, q) == IF q < Len(s) /\ s[q + 1] \in {43, 45} THEN q + 1 ELSE q

\* A range check that takes 2^31 - 1 for an overflow.
fits_OneShort(minus, a) == a.range /\ (minus \/ a.neg > INT32_MIN + 1)

\* Whether the accumulated value, negated unless minus, fits 32 bits.
fits(minus, a) == a.range /\ (minus \/ a.neg > INT32_MIN)

converted(p, minus, ds, de, a) ==
    [conv |-> de > ds,
     endptr |-> IF de > ds THEN de ELSE p,
     range |-> fits(minus, a),
     val |-> IF ~fits(minus, a) THEN 0 ELSE IF minus THEN a.neg ELSE -a.neg]

conversion(s, p, minus, ds) ==
    converted(p, minus, ds, digitsEnd(s, ds), accumulate(s, ds, digitsEnd(s, ds), 0))

\* The library conversion of the decimal numeral of s at offset p to 32 bits:
\* leading whitespace, an optional sign, digits.  conv: digits were found;
\* endptr: the offset after them; range: the value fits 32 bits.
toInt32(s, p) ==
    conversion(s, p, isMinus(s, skipSpaceIn(s, p)), signEnd(s, skipSpaceIn(s, p)))

LPAREN == <<40>>
RPAREN == <<41>>

Int32(n) == [type |-> "int32", val |-> <<n.val>>]

quotedNumeral(qs, n) ==
    IF ~n.conv \/ n.endptr # Len(qs.result) \/ ~n.range
    THEN Fail(qs.input, "malformed-number")
    ELSE Okay(qs.input, Int32(n))

quotedNumeralOf(qs) == IF ~qs.ok THEN qs ELSE quotedNumeral(qs, toInt32(qs.result, 0))

bareNumeral(p, n) ==
    IF ~n.conv \/ ~n.range THEN Fail(p, "malformed-number") ELSE Okay(n.endptr, Int32(n))

numeralAfter(lp) ==
    IF ~lp.ok THEN lp
    ELSE IF isQuoteAt(lp.input) THEN quotedNumeralOf(quotedString(lp.input))
    ELSE bareNumeral(lp.input, toInt32(_buf, lp.input))

\* numberInt(fieldName, builder), entered after the token NumberInt: the
\* body in parentheses is a bare numeral or a quoted one, of 32 bits.
numberInt(p) ==
    Expect(numeralAfter(Expect(At(p), LPAREN, "malformed-token")), RPAREN, "malformed-token")

fractionEnd(e) ==
    IF e < _input_end /\ _buf[e + 1] = 46 THEN digitsEnd(_buf, e + 1) ELSE e

exponentDigits(fe) ==
    IF fe + 1 < _input_end /\ _buf[fe + 2] \in {43, 45} THEN fe + 2 ELSE fe + 1

exponentEnd(fe) ==
    IF fe < _input_end /\ _buf[fe + 1] \in {69, 101}
       /\ digitsEnd(_buf, exponentDigits(fe)) > exponentDigits(fe)
    THEN digitsEnd(_buf, exponentDigits(fe)) ELSE fe

classified(p, n, xe) ==
    IF ~n.conv THEN Fail(p, "malformed-number")
    ELSE IF xe = n.endptr /\ n.range THEN Okay(n.endptr, Int32(n))
    ELSE Okay(xe, [type |-> "double", val |-> SubSeq(_buf, skipSpace(p) + 1, xe)])

classify(p, n) == classified(p, n, exponentEnd(fractionEnd(n.endptr)))

\* number(fieldName, builder): an integer literal that fits 32 bits is a
\* 32-bit integer; a wider one, or one with a fraction or an exponent, is a
\* double, kept here as the text of the literal.
number(p) == classify(p, toInt32(_buf, p))

(***************************************************************************)
(* Special constructs                                                      *)
(***************************************************************************)
COLON == <<58>>
COMMA == <<44>>
LBRACE == <<123>>
RBRACE == <<125>>
LBRACKET == <<91>>
RBRACKET == <<93>>
FORWARDSLASH == <<47>>

\* REGEXOPTION : g | i | m | s
JOPTIONS == <<103, 105, 109, 115>>

\* The options as the specification words them: g i m s x, none twice.
regexOptCheck_NoRepeatX(opt) ==
    /\ \A i \in 1..Len(opt) : opt[i] \in {103, 105, 109, 115, 120}
    /\ \A i, j \in 1..Len(opt) : i # j => opt[i] # opt[j]

\* regexOptCheck(opt): every character of opt is a REGEXOPTION.
regexOptCheck(opt) == \A i \in 1..Len(opt) : match(opt[i], CStr(JOPTIONS))

\* The 12 bytes that 24 hex digits stand for.
oidBytes(h) == [i \in 1..12 |-> fromHex(h[2 * i - 1], h[2 * i])]

\* The 24-character hex string of OIDOBJECT and OBJECTID.
oidOf(qs) ==
    IF ~qs.ok THEN qs
    ELSE IF Len(qs.result) # 24 THEN Fail(qs.input, "malformed-encoding")
    ELSE IF ~isHexString(qs.result) THEN Fail(qs.input, "malformed-encoding")
    ELSE Okay(qs.input, [type |-> "oid", val |-> oidBytes(qs.result)])

\* objectIdObject(fieldName, builder), entered after { "$oid".
objectIdObject(p) ==
    Expect(oidOf(quotedStringAfter(Expect(At(p), COLON, "malformed-token"))),
           RBRACE, "malformed-token")

\* objectId(fieldName, builder), entered after the token ObjectId.
objectId(p) ==
    Expect(oidOf(quotedStringAfter(Expect(At(p), LPAREN, "malformed-token"))),
           RPAREN, "malformed-token")

\* A regex value: the pattern and the options, each null-terminated.
regexVal(pat, opts) == [type |-> "regex", val |-> pat \o <<0>> \o opts \o <<0>>]

OPTIONS == B(<<"$", "o", "p", "t", "i", "o", "n", "s">>)

\* The options opts read after the pattern pat: checked, then the value.
regexOf(pat, opts) ==
    IF ~opts.ok THEN opts
    ELSE IF ~regexOptCheck(opts.result) THEN Fail(opts.input, "malformed-special-object")
    ELSE Okay(opts.input, regexVal(pat.result, opts.result))

optionsField(pat, p) ==
    IF ~readField(p, OPTIONS).matched THEN Fail(p, "malformed-special-object")
    ELSE regexOf(pat, quotedStringAfter(Expect(At(readField(p, OPTIONS).input),
                                               COLON, "malformed-token")))

optionsAfter(pat) ==
    IF ~pat.ok THEN pat
    ELSE IF ~readToken(pat.input, COMMA).matched
    THEN Okay(pat.input, regexVal(pat.result, <<>>))
    ELSE optionsField(pat, readToken(pat.input, COMMA).input)

\* regexObject(fieldName, builder), entered after { "$regex".
regexObject(p) ==
    Expect(optionsAfter(quotedStringAfter(Expect(At(p), COLON, "malformed-token"))),
           RBRACE, "malformed-token")

regexPat(p) == chars(p, CStr(FORWARDSLASH), NULL)
regexOpt(p) == chars(p, CStr(<<>>), CStr(JOPTIONS))

regexPatAfter(r) == IF r.ok THEN regexPat(r.input) ELSE r
regexOptAfter(pat) == IF pat.ok THEN regexOf(pat, regexOpt(pat.input)) ELSE pat

\* regex(fieldName, builder): / REGEXCHARS / REGEXOPTIONS
regex(p) ==
    regexOptAfter(Expect(regexPatAfter(Expect(At(p), FORWARDSLASH, "malformed-token")),
                         FORWARDSLASH, "malformed-token"))

(***************************************************************************)
(* Grammar dispatcher: the productions as steps over a call stack          *)
(***************************************************************************)
UNUSED == B(<<"U", "N", "U", "S", "E", "D">>)
OID == B(<<"$", "o", "i", "d">>)
REGEX == B(<<"$", "r", "e", "g", "e", "x">>)

Frame(fn, pc, fieldName, depth, subObj) ==
    [fn |-> fn, pc |-> pc, fieldName |-> fieldName, depth |-> depth,
     subObj |-> subObj, index |-> 0]

Top == stack[Len(stack)]
Running(fn, pc) ==
    status = "running" /\ stack # <<>> /\ Top.fn = fn /\ Top.pc = pc

\* One append to the builder at nesting depth d.
Entry(d, fieldName, v) ==
    [depth |-> d, field |-> fieldName, type |-> v.type, val |-> v.val]

Sub(type) == [type |-> type, val |-> <<>>]

\* An offset counted from the wrong end of the buffer.
offset_FromEnd(cur) == _input_end - cur

\* offset(): _input - _buf, for the cursor cur.
offset(cur) == cur

\* parseError(msg): the FailedToParse status, with the offset of the cursor.
parseError(cur, kind) ==
    [kind |-> kind, offset |-> offset(cur)]

NoError == [kind |-> "", offset |-> 0]

Keep == UNCHANGED <<_buf, _input_end, isArr, mres, inp, run, ref>>

\* The production fails with the cursor at cur: the Status starts its way up.
Raise(cur, kind) ==
    /\ _input' = cur
    /\ err' = parseError(cur, kind)
    /\ status' = "unwinding"
    /\ UNCHANGED <<stack, builder>>
    /\ Keep

\* The production returns Status::OK() with the cursor at cur, after the
\* appends of added.
Return(cur, added) ==
    /\ _input' = cur
    /\ builder' = builder \o added
    /\ stack' = SubSeq(stack, 1, Len(stack) - 1)
    /\ status' = IF Len(stack) = 1 THEN "ok" ELSE "running"
    /\ UNCHANGED err
    /\ Keep

\* The production moves to pc and calls callee, with the cursor at cur.
Call(cur, added, pc, callee) ==
    /\ _input' = cur
    /\ builder' = builder \o added
    /\ stack' = SubSeq(stack, 1, Len(stack) - 1)
                    \o <<[Top EXCEPT !.pc = pc]>> \o <<callee>>
    /\ UNCHANGED <<status, err>>
    /\ Keep

\* The production is replaced by callee (its result is the callee's).
Become(cur, callee) ==
    /\ _input' = cur
    /\ stack' = SubSeq(stack, 1, Len(stack) - 1) \o <<callee>>
    /\ UNCHANGED <<builder, status, err>>
    /\ Keep

\* isArray(): whether the text starts, after whitespace, with [.
isArrayNow == peekToken(_input, LBRACKET)

\* A caller asks isArray() of the new instance.
isArray ==
    /\ status = "new" /\ isArr = "none" /\ run = 2
    /\ isArr' = IF isArrayNow.matched THEN "yes" ELSE "no"
    /\ _input' = isArrayNow.input
    /\ UNCHANGED <<_buf, _input_end, stack, builder, status, err, mres, inp, run, ref>>

\* parse(builder): the top-level array or object, into the caller's builder.
parse ==
    /\ status = "new" /\ inp.fam # "match"
    /\ status' = "running"
    /\ stack' = << Frame(IF isArrayNow.matched THEN "array" ELSE "object",
                         "start", UNUSED, 0, FALSE) >>
    /\ _input' = isArrayNow.input
    /\ UNCHANGED <<builder, err>>
    /\ Keep

\* The depth of the builder the members of the production go to.
Inner == IF Top.subObj THEN Top.depth + 1 ELSE Top.depth
Opened(type) ==
    IF Top.subObj THEN <<Entry(Top.depth, Top.fieldName, Sub(type))>> ELSE <<>>

\* FIELD : VALUE, with the field f read: the colon, then the value.
member(f, added) ==
    IF ~f.ok THEN Raise(f.input, f.kind)
    ELSE IF ~readToken(f.input, COLON).matched THEN Raise(f.input, "malformed-token")
    ELSE Call(readToken(f.input, COLON).input, added, "members",
              Frame("value", "start", f.result, Inner, TRUE))

\* The first field f selects a special object or the generic members.
firstField(f) ==
    IF f.ok /\ f.result = OID
    THEN Become(f.input, [Top EXCEPT !.fn = "objectIdObject"])
    ELSE IF f.ok /\ f.result = REGEX
    THEN Become(f.input, [Top EXCEPT !.fn = "regexObject"])
    ELSE member(f, Opened("object"))

opened(open) ==
    IF ~open.matched THEN Raise(_input, "malformed-token")
    ELSE IF readToken(open.input, RBRACE).matched
    THEN Return(readToken(open.input, RBRACE).input, Opened("object"))
    ELSE firstField(field(open.input))

\* object(fieldName, builder, subObj): {, then } or the first field.
object ==
    /\ Running("object", "start")
    /\ opened(readToken(_input, LBRACE))

\* object, after a member: , FIELD : VALUE or the closing }.
objectMembers ==
    /\ Running("object", "members")
    /\ IF readToken(_input, COMMA).matched
       THEN member(field(readToken(_input, COMMA).input), <<>>)
       ELSE IF readToken(_input, RBRACE).matched
       THEN Return(readToken(_input, RBRACE).input, <<>>)
       ELSE Raise(_input, "malformed-token")

RECURSIVE numStr(_)
\* BSONObjBuilder::numStr(i): the decimal text of an array index.
numStr(i) ==
    IF i < 10 THEN <<48 + i>> ELSE Append(numStr(i \div 10), 48 + (i % 10))

\* An index that starts at one.
arrayFirst_One == 0 + 1

\* The index of the first element of an array.
arrayFirst == 0

\* The element of index i is parsed next, into the array's builder.
element(cur, added, i) ==
    /\ _input' = cur
    /\ builder' = builder \o added
    /\ stack' = SubSeq(stack, 1, Len(stack) - 1)
          \o <<[Top EXCEPT !.pc = "elements", !.index = i]>>
          \o <<Frame("value", "start", numStr(i), Inner, TRUE)>>
    /\ UNCHANGED <<status, err>>
    /\ Keep

bracketed(open) ==
    IF ~open.matched THEN Raise(_input, "malformed-token")
    ELSE IF peekToken(open.input, RBRACKET).matched
    THEN Return(readToken(open.input, RBRACKET).input, Opened("array"))
    ELSE element(open.input, Opened("array"), arrayFirst)

\* array(fieldName, builder, subObj): [, then ] or the first element.
array ==
    /\ Running("array", "start")
    /\ bracketed(readToken(_input, LBRACKET))

\* array, after an element: , VALUE or the closing ].
arrayElements ==
    /\ Running("array", "elements")
    /\ IF readToken(_input, COMMA).matched
       THEN element(readToken(_input, COMMA).input, <<>>, Top.index + 1)
       ELSE IF readToken(_input, RBRACKET).matched
       THEN Return(readToken(_input, RBRACKET).input, <<>>)
       ELSE Raise(_input, "malformed-token")

\* A terminal production r ends: its one append, or its failure.
Leaf(r) ==
    IF r.ok THEN Return(r.input, <<Entry(Top.depth, Top.fieldName, r.result)>>)
    ELSE Raise(r.input, r.kind)

Literal(p, token, type) ==
    IF readToken(p, token).matched
    THEN Okay(readToken(p, token).input, [type |-> type, val |-> <<>>])
    ELSE Fail(p, "malformed-token")

stringOf(s) == IF s.ok THEN Okay(s.input, [type |-> "string", val |-> s.result]) ELSE s

TRUE_ == B(<<"t", "r", "u", "e">>)
FALSE_ == B(<<"f", "a", "l", "s", "e">>)
NULL_ == B(<<"n", "u", "l", "l">>)
UNDEFINED_ == B(<<"u", "n", "d", "e", "f", "i", "n", "e", "d">>)
NUMBERINT == B(<<"N", "u", "m", "b", "e", "r", "I", "n", "t">>)
OBJECTID == B(<<"O", "b", "j", "e", "c", "t", "I", "d">>)

Peek(token) == peekToken(_input, token).matched

\* VALUE : OBJECT
valueObject ==
    /\ Running("value", "start") /\ Peek(LBRACE)
    /\ Become(_input, [Top EXCEPT !.fn = "object"])

\* VALUE : ARRAY
valueArray ==
    /\ Running("value", "start") /\ ~Peek(LBRACE) /\ Peek(LBRACKET)
    /\ Become(_input, [Top EXCEPT !.fn = "array"])

Nested == Peek(LBRACE) \/ Peek(LBRACKET)

\* VALUE : OBJECTID
valueObjectId ==
    /\ Running("value", "start") /\ ~Nested /\ Peek(OBJECTID)
    /\ Leaf(objectId(readToken(_input, OBJECTID).input))

\* VALUE : NUMBERINT
valueNumberInt ==
    /\ Running("value", "start") /\ ~Nested /\ ~Peek(OBJECTID) /\ Peek(NUMBERINT)
    /\ Leaf(numberInt(readToken(_input, NUMBERINT).input))

Constructed == Peek(OBJECTID) \/ Peek(NUMBERINT)

\* VALUE : REGEX
valueRegex ==
    /\ Running("value", "start") /\ ~Nested /\ ~Constructed /\ Peek(FORWARDSLASH)
    /\ Leaf(regex(_input))

\* VALUE : STRING
valueString ==
    /\ Running("value", "start") /\ ~Nested /\ ~Constructed /\ ~Peek(FORWARDSLASH)
    /\ (Peek(DOUBLEQUOTE) \/ Peek(SINGLEQUOTE))
    /\ Leaf(stringOf(quotedString(_input)))

Quoted == Peek(FORWARDSLASH) \/ Peek(DOUBLEQUOTE) \/ Peek(SINGLEQUOTE)
Keyword == Peek(TRUE_) \/ Peek(FALSE_) \/ Peek(NULL_) \/ Peek(UNDEFINED_)

\* VALUE : true | false | null | undefined
valueLiteral ==
    /\ Running("value", "start") /\ ~Nested /\ ~Constructed /\ ~Quoted /\ Keyword
    /\ Leaf(IF Peek(TRUE_) THEN Literal(_input, TRUE_, "true")
            ELSE IF Peek(FALSE_) THEN Literal(_input, FALSE_, "false")
            ELSE IF Peek(NULL_) THEN Literal(_input, NULL_, "null")
            ELSE Literal(_input, UNDEFINED_, "undefined"))

\* VALUE : NUMBER, when nothing else applies
valueNumber ==
    /\ Running("value", "start") /\ ~Nested /\ ~Constructed /\ ~Quoted /\ ~Keyword
    /\ Leaf(number(_input))

\* The special object { "$oid" : ... }
objectIdObjectStep ==
    /\ Running("objectIdObject", "start")
    /\ Leaf(objectIdObject(_input))

\* The special object { "$regex" : ... }
regexObjectStep ==
    /\ Running("regexObject", "start")
    /\ Leaf(regexObject(_input))

\* A production whose callee failed returns the callee's Status unchanged.
returnStatus ==
    /\ status = "unwinding"
    /\ stack' = SubSeq(stack, 1, Len(stack) - 1)
    /\ status' = IF Len(stack) <= 1 THEN "failed" ELSE "unwinding"
    /\ UNCHANGED <<_input, builder, err>>
    /\ Keep

(***************************************************************************)
(* The texts parsed                                                        *)
(***************************************************************************)
\* Documents of the grammar and malformed ones, each as its tokens.
Documents ==
    { << B(<<"{">>), B(<<"a">>), B(<<":">>), B(<<"1">>), B(<<",">>), B(<<"b">>), B(<<":">>),
         B(<<"\"", "t", "w", "o", "\"">>), B(<<",">>), B(<<"c">>), B(<<":">>), B(<<"[">>),
         B(<<"1">>), B(<<",">>), B(<<"2">>), B(<<",">>), B(<<"3">>), B(<<"]">>), B(<<"}">>) >>,
      << B(<<"{">>), B(<<"}">>) >>,
      << B(<<"[">>), B(<<"]">>) >>,
      << B(<<"[">>), B(<<"1">>), B(<<",">>), B(<<"[">>), B(<<"2">>), B(<<"]">>), B(<<",">>),
         B(<<"{">>), B(<<"x">>), B(<<":">>), B(<<"n", "u", "l", "l">>), B(<<"}">>),
         B(<<"]">>) >>,
      << B(<<"{">>), B(<<"a">>), B(<<":">>), B(<<"t", "r", "u", "e">>), B(<<",">>),
         B(<<"\"", "b", "\"">>), B(<<":">>), B(<<"f", "a", "l", "s", "e">>), B(<<",">>),
         B(<<"'", "c", "'">>), B(<<":">>), B(<<"u", "n", "d", "e", "f", "i", "n", "e", "d">>),
         B(<<",">>), B(<<"d">>), B(<<":">>), B(<<"'", "x", "'">>), B(<<"}">>) >>,
      << B(<<"{">>), B(<<"a">>), B(<<":">>), B(<<"1">>), B(<<",">>), B(<<"}">>) >>,
      << B(<<"{">>), B(<<"\"", "a", "\"">>), B(<<"1">>), B(<<"}">>) >>,
      << B(<<"{">>), B(<<"a">>), B(<<":">>), B(<<"1">>) >>,
      <<  >>,
      << B(<<"{">>), B(<<"a">>), B(<<":">>), B(<<"t", "r", "u">>), B(<<"}">>) >>,
      << B(<<"{">>), B(<<"a">>), B(<<":">>), B(<<"-", "1", "2", ".", "5", "e", "3">>),
         B(<<",">>), B(<<"b">>), B(<<":">>),
         B(<<"9", "9", "9", "9", "9", "9", "9", "9", "9", "9", "9">>), B(<<"}">>) >>,
      << B(<<"{">>), B(<<"i", "d">>), B(<<":">>),
         B(<<"O", "b", "j", "e", "c", "t", "I", "d">>), B(<<"(">>),
         B(<<"\"", "5", "0", "7", "f", "1", "f", "7", "7", "b", "c", "f", "8", "6", "c", "d", "7", "9", "9", "4", "3", "9", "0", "1", "1", "\"">>),
         B(<<")">>), B(<<"}">>) >>,
      << B(<<"{">>), B(<<"i", "d">>), B(<<":">>),
         B(<<"O", "b", "j", "e", "c", "t", "I", "d">>), B(<<"(">>),
         B(<<"\"", "5", "0", "7", "f", "1", "f", "7", "7", "\"">>), B(<<")">>), B(<<"}">>) >>,
      << B(<<"{">>), B(<<"s">>), B(<<":">>),
         B(<<"\"", "x", "\\", "t", "y", "\\", "\\", "\\", "\"", "z", "\"">>), B(<<"}">>) >>,
      << B(<<"{">>), B(<<"s">>), B(<<":">>), B(<<"\"", "a", "\\", "x", "4", "1", "\"">>),
         B(<<"}">>) >>,
      << B(<<"{">>), B(<<"s">>), B(<<":">>), B(<<"\"", "a", "b">>), B(<<"}">>) >>,
      << B(<<"[">>), B(<<"1">>), B(<<"\"", "b", "\"">>), B(<<"]">>) >>,
      << B(<<"[">>), B(<<"1">>), B(<<",">>), B(<<"2">>) >>,
      << B(<<"[">>), B(<<",">>), B(<<"]">>) >>,
      << B(<<"{">>), B(<<"r">>), B(<<":">>), B(<<"{">>),
         B(<<"\"", "$", "r", "e", "g", "e", "x", "\"">>), B(<<":">>),
         B(<<"\"", "a", "b", "\"">>), B(<<"}">>), B(<<"}">>) >>,
      << B(<<"{">>), B(<<"r">>), B(<<":">>), B(<<"{">>),
         B(<<"\"", "$", "r", "e", "g", "e", "x", "\"">>), B(<<":">>),
         B(<<"\"", "a", "b", "\"">>), B(<<",">>), B(<<"\"", "$", "o", "p", "t", "s", "\"">>),
         B(<<":">>), B(<<"\"", "i", "\"">>), B(<<"}">>), B(<<"}">>) >>,
      << B(<<"{">>), B(<<"n">>), B(<<":">>),
         B(<<"N", "u", "m", "b", "e", "r", "I", "n", "t">>), B(<<"(">>), B(<<")">>),
         B(<<"}">>) >>,
      << B(<<"{">>), B(<<"n">>), B(<<":">>),
         B(<<"N", "u", "m", "b", "e", "r", "I", "n", "t">>), B(<<"(">>),
         B(<<"\"", "1", "2", "x", "\"">>), B(<<")">>), B(<<"}">>) >>,
      << B(<<"{">>), B(<<"n">>), B(<<":">>),
         B(<<"N", "u", "m", "b", "e", "r", "I", "n", "t">>), B(<<"5">>), B(<<")">>),
         B(<<"}">>) >> }

\* The bounds of the generated texts.
MaxNear == 1       \* how far around 0 and the 32-bit limits the numerals go
MaxElems == 3      \* the longest generated array
MaxOpts == 2       \* the longest generated regex options string
MaxUnits == 2      \* the most \uXXXX escapes in a generated string

RECURSIVE negDigits(_)
negDigits(n) ==
    LET d == (10 - (n % 10)) % 10 IN
    IF n > -10 THEN <<48 + d>> ELSE Append(negDigits((n + d) \div 10), 48 + d)

\* The decimal text of a 32-bit integer.
itoa(n) == IF n >= 0 THEN negDigits(-n) ELSE <<45>> \o negDigits(n)

RECURSIVE decInc(_)
\* The decimal text of the successor of a natural number given as text.
decInc(ds) ==
    IF ds = <<>> THEN <<49>>
    ELSE LET front == SubSeq(ds, 1, Len(ds) - 1)
             last == ds[Len(ds)] IN
         IF last < 57 THEN Append(front, last + 1) ELSE Append(decInc(front), 48)

RECURSIVE decAdd(_, _)
decAdd(ds, k) == IF k = 0 THEN ds ELSE decAdd(decInc(ds), k - 1)

Input(fam, toks, arg, num, flag) ==
    [fam |-> fam, toks |-> toks, arg |-> arg, num |-> num, flag |-> flag]

Quote(t) == <<34>> \o t \o <<34>>

\* Numerals: num is the value, flag whether it is in [-2^31, 2^31 - 1].
Numerals ==
    {[text |-> itoa(n), num |-> n, flag |-> TRUE] :
        n \in (-MaxNear..MaxNear)
              \cup {INT32_MAX - k : k \in 0..MaxNear}
              \cup {INT32_MIN + k : k \in 0..MaxNear}}
    \cup {[text |-> decAdd(itoa(INT32_MAX), k), num |-> 0, flag |-> FALSE] :
            k \in 1..(MaxNear + 1)}
    \cup {[text |-> <<45>> \o decAdd(itoa(INT32_MAX), k + 1), num |-> 0, flag |-> FALSE] :
            k \in 1..(MaxNear + 1)}
    \cup {[text |-> B(<<"9", "9", "9", "9", "9", "9", "9", "9", "9", "9", "9">>),
           num |-> 0, flag |-> FALSE],
          [text |-> B(<<"0", "0", "0", "0", "0", "0", "0", "0", "0", "0", "4", "2">>),
           num |-> 42, flag |-> TRUE]}

\* { n : NumberInt ( numeral ) }, the numeral bare or quoted.
IntInputs ==
    {Input("int", <<LBRACE, <<110>>, COLON, NUMBERINT, LPAREN,
                    IF q THEN Quote(n.text) ELSE n.text, RPAREN, RBRACE>>,
           n.text, n.num, n.flag) :
        n \in Numerals, q \in BOOLEAN}

H1 == B(<<"5", "0", "7", "f", "1", "f", "7", "7", "b", "c", "f", "8",
          "6", "c", "d", "7", "9", "9", "4", "3", "9", "0", "1", "1">>)
H2 == B(<<"0", "1", "2", "3", "4", "5", "6", "7", "8", "9", "a", "b",
          "c", "d", "e", "f", "A", "B", "C", "D", "E", "F", "f", "F">>)

\* Candidate object identifiers: of 24 hex digits, of another length, and
\* with one character that is no hex digit.
OidStrings ==
    {H1, H2}
    \cup {SubSeq(H1, 1, n) : n \in {0, 1, 12, 23}}
    \cup {H2 \o SubSeq(H1, 1, n) : n \in {1, 24}}
    \cup {[H1 EXCEPT ![i] = c] : i \in {1, 12, 24}, c \in Range(B(<<"g", "G", "-", " ", "/", ":", "@">>))}

\* { o : { "$oid" : "h" } }
OidInputs ==
    {Input("oid",
           <<LBRACE, <<111>>, COLON, LBRACE, Quote(OID), COLON, Quote(h), RBRACE, RBRACE>>,
           h, 0, FALSE) :
        h \in OidStrings}

\* Code units: ASCII, two-byte and three-byte ones, high and low surrogates.
Units ==
    { B(<<"0", "0", "4", "1">>), B(<<"0", "0", "e", "9">>), B(<<"2", "0", "A", "C">>),
      B(<<"D", "8", "3", "D">>), B(<<"D", "E", "0", "0">>), B(<<"d", "b", "f", "f">>),
      B(<<"D", "C", "0", "0">>) }

RECURSIVE UnitSeqs(_)
UnitSeqs(n) ==
    IF n = 0 THEN {<<>>}
    ELSE UnitSeqs(n - 1) \cup {Append(us, u) : us \in UnitSeqs(n - 1), u \in Units}

Escaped(us) == Flatten([i \in 1..Len(us) |-> <<92, 117>> \o us[i]])

\* { s : "\uXXXX..." }, and the same followed by a plain character.
StrInputs ==
    {Input("str", <<LBRACE, <<115>>, COLON, Quote(Escaped(us) \o tail), RBRACE>>,
           Flatten(us), Len(tail), TRUE) :
        us \in UnitSeqs(MaxUnits) \ {<<>>}, tail \in {<<>>, <<120>>}}

OptChars == B(<<"g", "i", "m", "s", "x", "q">>)

RECURSIVE OptStrings(_)
OptStrings(n) ==
    IF n = 0 THEN {<<>>}
    ELSE OptStrings(n - 1)
         \cup {Append(o, OptChars[i]) : o \in OptStrings(n - 1), i \in 1..Len(OptChars)}

PATTERN == B(<<"a", "b", "+">>)

\* { r : /ab+/opts } and { r : { "$regex" : "ab+", "$options" : "opts" } };
\* flag: the options are written after the slash.
RegexInputs ==
    {Input("regex",
           IF slash THEN <<LBRACE, <<114>>, COLON,
                           FORWARDSLASH \o PATTERN \o FORWARDSLASH \o o, RBRACE>>
           ELSE <<LBRACE, <<114>>, COLON, LBRACE, Quote(REGEX), COLON, Quote(PATTERN),
                  COMMA, Quote(OPTIONS), COLON, Quote(o), RBRACE, RBRACE>>,
           o, 0, slash) :
        o \in OptStrings(MaxOpts), slash \in BOOLEAN}

\* The tokens of n elements 5, 6, ... separated by commas.
Elements(n) ==
    Flatten([i \in 1..n |-> IF i = 1 THEN <<itoa(4 + i)>> ELSE <<COMMA, itoa(4 + i)>>])

\* [ e, ... ] of num elements, at the top level or as the value of a field;
\* flag: a comma follows the last element.
ArrayInputs ==
    {Input("array",
           LET a == <<LBRACKET>> \o Elements(n)
                        \o (IF trailing THEN <<COMMA>> ELSE <<>>) \o <<RBRACKET>>
           IN  IF top THEN a ELSE <<LBRACE, <<99>>, COLON>> \o a \o <<RBRACE>>,
           IF top THEN <<1>> ELSE <<0>>, n, trailing) :
        n \in 0..MaxElems, trailing \in BOOLEAN, top \in BOOLEAN}

Inputs ==
    {Input("doc", d, <<>>, 0, FALSE) : d \in Documents}
    \cup IntInputs \cup OidInputs \cup StrInputs \cup RegexInputs \cup ArrayInputs

\* The calls of match under test: the character num, the set arg (NULL if flag).
MatchChars == B(<<"a", "b", "g", "x", "\"", " ">>)
MatchSets ==
    { <<>>, B(<<"a">>), B(<<"b", "a">>), JOPTIONS, DOUBLEQUOTE, B(<<"x", " ", "x">>),
      B(<<"\"", "'">>), FIELDCHARS }
MatchCalls ==
    {Input("match", <<>>, set, c, FALSE) :
        set \in MatchSets, c \in Range(MatchChars)}
    \cup {Input("match", <<>>, <<>>, MatchChars[i], TRUE) : i \in 1..Len(MatchChars)}

\* The runs of whitespace inserted between tokens.
WsRuns == { <<32>>, <<9, 10, 32>> }

\* The text of tokens toks with the run w inserted in gap g (0: before the
\* first token), or in every gap if g = -1.
Text(toks, g, w) ==
    (IF g \in {0, -1} THEN w ELSE <<>>)
    \o Flatten([i \in 1..Len(toks) |->
                    toks[i] \o (IF g = i \/ g = -1 THEN w ELSE <<>>)])

(***************************************************************************)
(* The specification                                                       *)
(***************************************************************************)
NoRef == [status |-> "", kind |-> "", builder |-> <<>>, buf |-> <<>>]

\* JParse(str): the instance after construction, over the text as written.
Init ==
    /\ inp \in Inputs \cup MatchCalls
    /\ _buf = Text(inp.toks, 0, <<>>)
    /\ _input = 0
    /\ _input_end = Len(_buf)
    /\ stack = <<>>
    /\ builder = <<>>
    /\ status = "new"
    /\ err = NoError
    /\ isArr = "none"
    /\ mres = "none"
    /\ run = 1
    /\ ref = NoRef

\* A second instance: JParse(str) over the same tokens, with a run of
\* whitespace inserted in one gap, in every gap, or in none.
construct ==
    /\ run = 1 /\ status \in {"ok", "failed"}
    /\ \E g \in -1..Len(inp.toks), w \in WsRuns \cup {<<>>} :
          /\ (w = <<>>) => (g = 0)
          /\ _buf' = Text(inp.toks, g, w)
    /\ _input' = 0
    /\ _input_end' = Len(_buf')
    /\ stack' = <<>>
    /\ builder' = <<>>
    /\ status' = "new"
    /\ err' = NoError
    /\ isArr' = "none"
    /\ run' = 2
    /\ ref' = [status |-> status, kind |-> err.kind, builder |-> builder, buf |-> _buf]
    /\ UNCHANGED <<mres, inp>>

\* A call of match(matchChar, matchSet).
matchCall ==
    /\ inp.fam = "match" /\ mres = "none"
    /\ mres' = IF match(inp.num, [null |-> inp.flag, s |-> inp.arg])
               THEN "true" ELSE "false"
    /\ UNCHANGED <<_buf, _input, _input_end, stack, builder, status, err, isArr,
                   inp, run, ref>>

Next ==
    \/ isArray
    \/ parse
    \/ object
    \/ objectMembers
    \/ array
    \/ arrayElements
    \/ valueObject
    \/ valueArray
    \/ valueObjectId
    \/ valueNumberInt
    \/ valueRegex
    \/ valueString
    \/ valueLiteral
    \/ valueNumber
    \/ objectIdObjectStep
    \/ regexObjectStep
    \/ returnStatus
    \/ construct
    \/ matchCall

Spec == Init /\ [][Next]_vars

(***************************************************************************)
(* What the claims are measured against                                    *)
(***************************************************************************)
Done == status \in {"ok", "failed"}
Failing == status \in {"unwinding", "failed"}

\* The first character of the text that is no whitespace is c.
FirstIs(c) ==
    \E i \in 1..Len(_buf) : _buf[i] = c /\ \A j \in 1..(i - 1) : isspace(_buf[j])

HexLower == B(<<"0", "1", "2", "3", "4", "5", "6", "7", "8", "9", "a", "b", "c", "d", "e", "f">>)
HexUpper == B(<<"0", "1", "2", "3", "4", "5", "6", "7", "8", "9", "A", "B", "C", "D", "E", "F">>)
IsHexDigit(c) == \E v \in 1..16 : HexLower[v] = c \/ HexUpper[v] = c
DigitValue(c) == (CHOOSE v \in 1..16 : HexLower[v] = c \/ HexUpper[v] = c) - 1

\* The code unit four hex digits stand for, and the code units of a text.
UnitValue(h) ==
    4096 * DigitValue(h[1]) + 256 * DigitValue(h[2]) + 16 * DigitValue(h[3]) + DigitValue(h[4])
UnitsOf(h) == [i \in 1..(Len(h) \div 4) |-> UnitValue(SubSeq(h, 4 * i - 3, 4 * i))]

\* UTF-8 of one code unit taken as a code point of the basic plane.
Utf8OfUnit(u) ==
    IF u < 128 THEN <<u>>
    ELSE IF u < 2048 THEN <<192 + (u \div 64), 128 + (u % 64)>>
    ELSE <<224 + (u \div 4096), 128 + ((u \div 64) % 64), 128 + (u % 64)>>

IsHigh(u) == u \in 55296..56319
IsLow(u) == u \in 56320..57343

\* UTF-8 of the code point a surrogate pair stands for.
Utf8OfPair(hi, lo) ==
    LET cp == 65536 + (hi - 55296) * 1024 + (lo - 56320) IN
    <<240 + (cp \div 262144), 128 + ((cp \div 4096) % 64), 128 + ((cp \div 64) % 64), 128 + (cp % 64)>>

\* Each code unit encoded on its own.
UnitWise(us) == Flatten([i \in 1..Len(us) |-> Utf8OfUnit(us[i])])

\* Surrogate pairs joined; ok is FALSE if a high surrogate has no low one.
RECURSIVE Joined(_)
Joined(us) ==
    IF us = <<>> THEN [ok |-> TRUE, bytes |-> <<>>]
    ELSE IF IsHigh(us[1])
    THEN IF Len(us) >= 2 /\ IsLow(us[2])
         THEN LET rest == Joined(SubSeq(us, 3, Len(us))) IN
              [ok |-> rest.ok, bytes |-> Utf8OfPair(us[1], us[2]) \o rest.bytes]
         ELSE [ok |-> FALSE, bytes |-> <<>>]
    ELSE LET rest == Joined(Tail(us)) IN
         [ok |-> rest.ok, bytes |-> Utf8OfUnit(us[1]) \o rest.bytes]

One(fieldName, type, val) ==
    <<[depth |-> 0, field |-> fieldName, type |-> type, val |-> val]>>

IndexNames ==
    << <<48>>, <<49>>, <<50>>, <<51>>, <<52>>, <<53>>, <<54>>, <<55>>, <<56>>, <<57>> >>

DepthAt(k) == IF k = 0 THEN -1 ELSE builder[k].depth

\* The appends made to the builder that entry k opened (0: the caller's).
Members(k) ==
    {j \in (k + 1)..Len(builder) :
        /\ DepthAt(j) = DepthAt(k) + 1
        /\ \A m \in (k + 1)..j : DepthAt(m) > DepthAt(k)}

Positional(k) ==
    \A j \in Members(k) :
        builder[j].field = IndexNames[Cardinality({i \in Members(k) : i < j}) + 1]

(***************************************************************************)
(* The claims                                                              *)
(***************************************************************************)

\* C1: a failure ends the parse: from its detection on the Status only
\* travels up to the caller, unchanged, with no further append and no move
\* of the cursor, and it carries the offset of the cursor at detection,
\* which lies between 0 and the length of the input.
C1_FailureEndsParse ==
    /\ [](Failing => /\ err.kind # ""
                     /\ err.offset = _input
                     /\ 0 <= err.offset /\ err.offset <= Len(_buf))
    /\ [][Failing /\ run' = run =>
            /\ status' \in {"unwinding", "failed"}
            /\ Len(stack') <= Len(stack)
            /\ builder' = builder /\ err' = err /\ _input' = _input]_vars

C1_Witness ==
    status = "failed" /\ err.offset > 0 /\ err.offset < Len(_buf) /\ builder # <<>>

C3_ObjectId ==
    (Done /\ inp.fam = "oid") =>
        IF Len(inp.arg) = 24 /\ \A i \in 1..Len(inp.arg) : IsHexDigit(inp.arg[i])
        THEN /\ status = "ok"
             /\ builder = One(<<111>>, "oid",
                              [i \in 1..12 |-> 16 * DigitValue(inp.arg[2 * i - 1])
                                                  + DigitValue(inp.arg[2 * i])])
        ELSE status = "failed" /\ err.kind = "malformed-encoding" /\ builder = <<>>

C3_Witness ==
    status = "ok" /\ inp.fam = "oid" /\ inp.arg = H2 /\ builder # <<>>

Tail_(n) == IF n = 1 THEN <<120>> ELSE <<>>

\* C4 as stated: a surrogate pair decodes to the 4-byte UTF-8 encoding of the
\* code point, and a high surrogate without a low one fails the parse.
C4_Original ==
    (Done /\ inp.fam = "str") =>
        IF Joined(UnitsOf(inp.arg)).ok
        THEN /\ status = "ok"
             /\ builder = One(<<115>>, "string",
                              Joined(UnitsOf(inp.arg)).bytes \o Tail_(inp.num))
        ELSE status = "failed"

\* C4, amended: every \uXXXX escape is decoded on its own, to the 1 to 3
\* bytes of UTF-8 of its code unit; a surrogate pair gives two 3-byte
\* sequences and a high surrogate without a low one does not fail.
C4_UnitWise ==
    (Done /\ inp.fam = "str") =>
        /\ status = "ok"
        /\ builder = One(<<115>>, "string", UnitWise(UnitsOf(inp.arg)) \o Tail_(inp.num))

C4_Witness ==
    /\ status = "ok" /\ inp.fam = "str"
    /\ Len(UnitsOf(inp.arg)) = 2
    /\ IsHigh(UnitsOf(inp.arg)[1]) /\ IsLow(UnitsOf(inp.arg)[2])
    /\ Len(builder[1].val) = 6

\* C5: whitespace inserted between tokens changes neither the outcome nor
\* the appends.
C5_WhitespaceInsensitive ==
    (Done /\ run = 2) =>
        /\ status = ref.status
        /\ err.kind = ref.kind
        /\ builder = ref.builder

C5_Witness ==
    /\ run = 2 /\ status = "ok" /\ Len(builder) >= 5
    /\ Len(_buf) > Len(ref.buf) + Len(inp.toks)

\* C6: the elements of an array are appended in input order under the names
\* "0", "1", "2", ...; [] appends an empty array; a comma before ] fails.
C6_ArrayOrder ==
    /\ FirstIs(91) => Positional(0)
    /\ \A k \in 1..Len(builder) : builder[k].type = "array" => Positional(k)
    /\ (Done /\ inp.fam = "array") =>
          IF inp.flag THEN status = "failed"
          ELSE /\ status = "ok"
               /\ builder =
                    (IF inp.arg = <<1>> THEN <<>> ELSE One(<<99>>, "array", <<>>))
                    \o [i \in 1..inp.num |->
                          [depth |-> IF inp.arg = <<1>> THEN 0 ELSE 1,
                           field |-> IndexNames[i], type |-> "int32", val |-> <<4 + i>>]]

C6_Witness ==
    /\ status = "ok" /\ inp.fam = "array" /\ inp.num = MaxElems /\ inp.arg = <<0>>
    /\ Len(builder) = MaxElems + 1

\* C7: isArray() tells whether the first non-whitespace character is [,
\* leaves the cursor and the builder as they were, and the parse that
\* follows ends as the parse of the same text without it.
C7_IsArrayClassifies ==
    /\ (isArr # "none" /\ status = "new") =>
          /\ (isArr = "yes") = FirstIs(91)
          /\ _input = 0 /\ builder = <<>> /\ stack = <<>> /\ err = NoError
    /\ (isArr # "none" /\ Done /\ _buf = ref.buf) =>
          /\ status = ref.status /\ err.kind = ref.kind /\ builder = ref.builder

C7_Witness ==
    isArr = "yes" /\ status = "ok" /\ isspace(_buf[1]) /\ Len(builder) >= 3

ScannedTokens ==
    {LBRACE, RBRACE, LBRACKET, RBRACKET, COLON, COMMA, DOUBLEQUOTE, SINGLEQUOTE,
     FORWARDSLASH, LPAREN, RPAREN, TRUE_, FALSE_, NULL_, UNDEFINED_, NUMBERINT, OBJECTID}

\* C8: 0 <= cursor <= end in every state; the cursor never moves back; a
\* peek, and a read that does not match, leave it where it was.
C8_CursorMonotone ==
    /\ [](/\ 0 <= _input /\ _input <= _input_end /\ _input_end = Len(_buf)
          /\ \A t \in ScannedTokens :
                /\ peekToken(_input, t).input = _input
                /\ ~readToken(_input, t).matched => readToken(_input, t).input = _input
                /\ readToken(_input, t).input >= _input)
    /\ [][run' = run => _input' >= _input]_vars

C8_Witness ==
    /\ status = "running" /\ _input > 0 /\ _input < _input_end
    /\ isspace(_buf[_input + 1])
    /\ \E t \in ScannedTokens : ~readToken(_input, t).matched
    /\ \E t \in ScannedTokens : peekToken(_input, t).matched

AllIn(o, set) == \A i \in 1..Len(o) : o[i] \in set
NoRepeat(o) == \A i, j \in 1..Len(o) : i # j => o[i] # o[j]
RegexEntry(o) == One(<<114>>, "regex", PATTERN \o <<0>> \o o \o <<0>>)

\* C9 as stated: the options are accepted exactly when they are among
\* g i m s x with none repeated, and otherwise no regex is appended.
C9_Original ==
    (Done /\ inp.fam = "regex") =>
        IF AllIn(inp.arg, {103, 105, 109, 115, 120}) /\ NoRepeat(inp.arg)
        THEN status = "ok" /\ builder = RegexEntry(inp.arg)
        ELSE status = "failed" /\ builder = <<>>

\* C9, amended: the options are accepted exactly when every character is
\* one of g, i, m, s (x is no option, a repeated option is accepted); in the
\* $options form a rejected string leaves no regex appended.
C9_RegexOptions ==
    (Done /\ inp.fam = "regex") =>
        IF AllIn(inp.arg, {103, 105, 109, 115})
        THEN status = "ok" /\ builder = RegexEntry(inp.arg)
        ELSE status = "failed" /\ (~inp.flag => builder = <<>>)

C9_Witness ==
    /\ status = "ok" /\ inp.fam = "regex" /\ ~inp.flag
    /\ Len(inp.arg) = 2 /\ inp.arg[1] = inp.arg[2]

\* C10 as stated: match is membership, false for a null set.
C10_Original ==
    mres # "none" =>
        ((mres = "true") = (~inp.flag /\ inp.num \in Range(inp.arg)))

\* C10, amended: match is membership for a set that is not null, false for
\* the empty set, and true for a null set whatever the character.
C10_Match ==
    mres # "none" =>
        ((mres = "true") = (inp.flag \/ inp.num \in Range(inp.arg)))

C10_Witness == mres = "true" /\ inp.flag

=============================================================================
